---- MODULE Spec2Model ----
(***************************************************************************)
(* Inventory / sales engine of the repository (package `inventory`):       *)
(* the SQLite repository (repository.py), the business layer              *)
(* (services.py) and the JSON import (utils.py).                           *)
(*                                                                         *)
(* Units.  The code keeps money in Python floats.  The model keeps         *)
(*   - unit prices in thousandths of a currency unit ("mills"), so that a  *)
(*     price with three decimals (an imported 1.234) is representable,     *)
(*   - totals in hundredths ("cents"),                                     *)
(*   - tax rates in thousandths (0.20 = 200, 0.055 = 55).                  *)
(* round(x, 2) is Round2 below.  The values enumerated in this module      *)
(* never put a product exactly half-way between two cents, where the       *)
(* binary representation of the float would decide the direction.          *)
(***************************************************************************)
EXTENDS Integers, Sequences, FiniteSets, TLC

VARIABLES db, last, pending, conns

vars == <<db, last, pending, conns>>

(***************************************************************************)
(* Bounds of the model.                                                    *)
(***************************************************************************)
MaxQty == 2

MaxSales == 2

MaxId == 2

Clients == {1, 2}

SKUS == {"P001", "P002"}

\* add_product and update_product are called for P001; P002 comes from the catalogs
EditedSkus == {"P001"}

\* ORDER BY sku ASC: the collation order of the SKUs of the model
SkuRank(sku) ==
    IF sku = "P001" THEN 1 ELSE 2

\* the values now_iso() returns during a run
Timestamps == {"t1"}

(***************************************************************************)
(* config.py                                                               *)
(***************************************************************************)
default_vat_rate == 200

(***************************************************************************)
(* Python helpers                                                          *)
(***************************************************************************)
\* Optional[T]: None is the empty sequence, a value v is <<v>>
None == <<>>

Some(v) == <<v>>

\* a mutation of the rounding: truncation instead of rounding to nearest
Round2Trunc(num, den) ==
    num \div den

\* round(num/den) to the nearest integer, an exact half going to the even
\* neighbour (Python's round); num >= 0, den > 0
Round2(num, den) ==
    LET q == num \div den
        r == num % den
    IN  IF 2 * r < den THEN q
        ELSE IF 2 * r > den THEN q + 1
        ELSE IF q % 2 = 0 THEN q ELSE q + 1

\* the totals with the tax left out of the tax-inclusive total
calc_totalsTtcWithoutVat(unit_price_ht, quantity, vat_rate) ==
    LET total_ht  == Round2(unit_price_ht * quantity, 10)
        total_vat == Round2(total_ht * vat_rate, 1000)
        total_ttc == Round2(total_ht, 1)
    IN  [total_ht |-> total_ht, total_vat |-> total_vat, total_ttc |-> total_ttc]

\* the three roundings of InventoryManager.sell_product, in order
calc_totals(unit_price_ht, quantity, vat_rate) ==
    LET total_ht  == Round2(unit_price_ht * quantity, 10)
        total_vat == Round2(total_ht * vat_rate, 1000)
        total_ttc == Round2(total_ht + total_vat, 1)
    IN  [total_ht |-> total_ht, total_vat |-> total_vat, total_ttc |-> total_ttc]

RECURSIVE SumOver(_, _)
\* SUM(field) over a set of rows
SumOver(rows, field) ==
    IF rows = {} THEN 0
    ELSE LET r == CHOOSE x \in rows : TRUE
         IN  r[field] + SumOver(rows \ {r}, field)

(***************************************************************************)
(* repository.py : schema constraints                                      *)
(***************************************************************************)
\* the CHECK constraints of table products, weakened: no check on quantity
ProductChecksNoQuantity(row) ==
    /\ row.unit_price_ht >= 0
    /\ row.vat_rate >= 0 /\ row.vat_rate <= 1000

\* CHECK(unit_price_ht >= 0), CHECK(vat_rate >= 0 AND vat_rate <= 1), CHECK(quantity >= 0)
ProductChecks(row) ==
    /\ row.unit_price_ht >= 0
    /\ row.vat_rate >= 0 /\ row.vat_rate <= 1000
    /\ row.quantity >= 0

\* the UNIQUE constraint dropped
SkuUniqueNone(rows) ==
    TRUE

\* sku TEXT NOT NULL UNIQUE
SkuUnique(rows) ==
    \A r1, r2 \in rows : r1.sku = r2.sku => r1.id = r2.id

\* CHECKs of table sales
SaleChecks(row) ==
    /\ row.quantity > 0
    /\ row.unit_price_ht >= 0
    /\ row.vat_rate >= 0 /\ row.vat_rate <= 1000
    /\ row.total_ht >= 0 /\ row.total_vat >= 0 /\ row.total_ttc >= 0

\* the foreign key dropped
ForeignKeyNone(products, sales) ==
    TRUE

\* FOREIGN KEY(product_id) REFERENCES products(id) ON DELETE RESTRICT
ForeignKey(products, sales) ==
    \A s \in sales : \E p \in products : p.id = s.product_id

\* a database file without tables
EmptyDb ==
    [tables |-> FALSE, products |-> {}, sales |-> {}, prodSeq |-> 0, saleSeq |-> 0]

\* result of a store or engine call: the database afterwards, the exception
\* raised ("none" when it returns), its message class, the returned value
\* (None for a call that returns nothing, Some(v) otherwise; a returned count
\* is the record [count |-> n]), the exception it was raised from (__cause__),
\* the number of connections the call leaves open and whether a transaction
\* is left pending on one of them
Return(d, v) ==
    [db |-> d, err |-> "none", msg |-> "", val |-> v, cause |-> "none",
     open |-> 0, txn |-> FALSE]

Raise(d, e, m) ==
    [db |-> d, err |-> e, msg |-> m, val |-> None, cause |-> "none",
     open |-> 0, txn |-> FALSE]

(***************************************************************************)
(* models.py                                                               *)
(***************************************************************************)
\* a row of table products read back as a Product (SQLiteRepository.list_products, get_product_by_sku)
RowToProduct(row) ==
    [sku |-> row.sku, name |-> row.name, category |-> row.category,
     unit_price_ht |-> row.unit_price_ht, quantity |-> row.quantity,
     vat_rate |-> row.vat_rate, id |-> Some(row.id), created_at |-> Some(row.created_at)]

(***************************************************************************)
(* repository.py : SQLiteRepository                                        *)
(* Every operation is `with self.connect() as conn:` around a body; the    *)
(* body of X is X_body below, and repo_X is the operation as the engine    *)
(* calls it.  A storage fault is a point at which the driver raises        *)
(* sqlite3.Error: "open" in sqlite3.connect or the PRAGMA of connect,      *)
(* "execute" in the first statement of a body, "insert", "update" and      *)
(* "commit" in the statements of sell_product.                             *)
(***************************************************************************)
\* sqlite3.Error and its subclasses
sqlite3_Error == {"sqlite3.OperationalError", "sqlite3.IntegrityError"}

\* points of SQLiteRepository.sell_product at which the storage can fail
Faults == {"none", "insert", "update", "commit"}

\* points of the other operations at which the storage can fail
StoreFaults == {"none", "open", "execute"}

\* conn.rollback() forgotten, or every statement committed on its own
rollbackLost(begin, current) ==
    current

\* conn.rollback(): back to the state at the start of the transaction
rollback(begin, current) ==
    begin

\* except sqlite3.Error as e: conn.rollback(); raise DatabaseError(...) from e
\* (d is the database after the rollback)
except_sqlite3_Error(d, e, m) ==
    [Raise(d, "DatabaseError", m) EXCEPT !.cause = e]

\* connect without its except clause: the driver's exception leaves as it is
connect_exceptNone(r) ==
    r

\* connect: except sqlite3.Error as e: raise DatabaseError(f"Erreur SQLite: {e}") from e
connect_except(r) ==
    IF r.err \in sqlite3_Error
    THEN [r EXCEPT !.err = "DatabaseError", !.cause = r.err]
    ELSE r

\* conn.close() at the end of the try block instead of the finally clause
finally_closeOnReturn(begin, r) ==
    IF r.err = "none"
    THEN [r EXCEPT !.open = 0, !.txn = FALSE, !.db = IF r.txn THEN begin ELSE r.db]
    ELSE r

\* connect: finally: conn.close().  Closing ends a pending transaction, whose
\* changes are lost; when no connection was opened the close fails on the
\* unbound name and the failure is swallowed
finally_close(begin, r) ==
    [r EXCEPT !.open = 0, !.txn = FALSE, !.db = IF r.txn THEN begin ELSE r.db]

\* `with self.connect() as conn: body` on database d: opened is FALSE when
\* sqlite3.connect or the PRAGMA raises, body is the outcome of the body
connect(d, opened, body) ==
    LET entered == IF opened THEN [body EXCEPT !.open = 1]
                   ELSE Raise(d, "sqlite3.OperationalError", "sqlite")
    IN  finally_close(d, connect_except(entered))

reset_and_create_schema_body(d, fault) ==
    IF fault = "execute"
    THEN except_sqlite3_Error(rollback(d, d), "sqlite3.OperationalError", "schema")
    ELSE Return([tables |-> TRUE, products |-> {}, sales |-> {}, prodSeq |-> 0, saleSeq |-> 0], None)

\* reset_and_create_schema with the faults of the store
store_reset_and_create_schema(d, fault) ==
    connect(d, fault # "open", reset_and_create_schema_body(d, fault))

repo_reset_and_create_schema(d) ==
    store_reset_and_create_schema(d, "none")

\* CREATE TABLE preceded by the DROPs of the reset
create_schema_dropping(d, fault) ==
    IF fault = "execute"
    THEN except_sqlite3_Error(rollback(d, d), "sqlite3.OperationalError", "schema")
    ELSE Return([tables |-> TRUE, products |-> {}, sales |-> {}, prodSeq |-> 0, saleSeq |-> 0], None)

\* executescript(SCHEMA_SQL): CREATE TABLE IF NOT EXISTS products, sales
create_schema_if_needed_body(d, fault) ==
    IF fault = "execute"
    THEN except_sqlite3_Error(rollback(d, d), "sqlite3.OperationalError", "schema")
    ELSE Return([d EXCEPT !.tables = TRUE], None)

\* create_schema_if_needed with the faults of the store
store_create_schema_if_needed(d, fault) ==
    connect(d, fault # "open", create_schema_if_needed_body(d, fault))

repo_create_schema_if_needed(d) ==
    store_create_schema_if_needed(d, "none")

insert_product_body(d, p, now, fault) ==
    IF ~d.tables \/ fault = "execute"
    THEN except_sqlite3_Error(rollback(d, d), "sqlite3.OperationalError", "sqlite")
    ELSE LET row == [id |-> d.prodSeq + 1, sku |-> p.sku, name |-> p.name,
                     category |-> p.category, unit_price_ht |-> p.unit_price_ht,
                     vat_rate |-> p.vat_rate, quantity |-> p.quantity,
                     created_at |-> IF p.created_at = None THEN now ELSE p.created_at[1]]
             after == [d EXCEPT !.products = @ \cup {row}, !.prodSeq = @ + 1]
         IN  IF ProductChecks(row) /\ SkuUnique(after.products)
             THEN Return(after, Some(row.id))
             ELSE except_sqlite3_Error(rollback(d, after), "sqlite3.IntegrityError", "constraint")

\* insert_product with the faults of the store
store_insert_product(d, p, now, fault) ==
    connect(d, fault # "open", insert_product_body(d, p, now, fault))

repo_insert_product(d, p, now) ==
    store_insert_product(d, p, now, "none")

RECURSIVE SortById(_)
\* the rows in the order of their ids (the ORDER BY clause left out)
SortById(rows) ==
    IF rows = {} THEN <<>>
    ELSE LET m == CHOOSE x \in rows : \A y \in rows : x.id <= y.id
         IN  <<m>> \o SortById(rows \ {m})

RECURSIVE SortBySku(_)
\* ORDER BY sku ASC
SortBySku(rows) ==
    IF rows = {} THEN <<>>
    ELSE LET m == CHOOSE x \in rows : \A y \in rows :
                     \/ SkuRank(x.sku) < SkuRank(y.sku)
                     \/ SkuRank(x.sku) = SkuRank(y.sku) /\ x.id <= y.id
         IN  <<m>> \o SortBySku(rows \ {m})

\* no except clause of its own: the driver's exception reaches connect
list_products_body(d, fault) ==
    IF ~d.tables \/ fault = "execute" THEN Raise(d, "sqlite3.OperationalError", "sqlite")
    ELSE LET sorted == SortBySku(d.products)
         IN  Return(d, [i \in 1..Len(sorted) |-> RowToProduct(sorted[i])])

\* list_products with the faults of the store
store_list_products(d, fault) ==
    connect(d, fault # "open", list_products_body(d, fault))

repo_list_products(d) ==
    store_list_products(d, "none")

get_product_by_sku_body(d, sku, fault) ==
    IF ~d.tables \/ fault = "execute" THEN Raise(d, "sqlite3.OperationalError", "sqlite")
    ELSE LET rows == {r \in d.products : r.sku = sku}
         IN  IF rows = {} THEN Return(d, None)
             ELSE Return(d, Some(RowToProduct(CHOOSE r \in rows : \A o \in rows : r.id <= o.id)))

\* get_product_by_sku with the faults of the store
store_get_product_by_sku(d, sku, fault) ==
    connect(d, fault # "open", get_product_by_sku_body(d, sku, fault))

repo_get_product_by_sku(d, sku) ==
    store_get_product_by_sku(d, sku, "none")

\* the creation timestamp accepted as an updatable column
allowedWithCreatedAt ==
    {"name", "category", "unit_price_ht", "vat_rate", "quantity", "created_at"}

\* the columns update_product accepts
allowed == {"name", "category", "unit_price_ht", "vat_rate", "quantity"}

\* the UPDATE carried over to the sale rows of the SKU: their price and tax
\* rate follow the product's
update_product_and_sales(d, sku, updates, fault) ==
    LET fields == DOMAIN updates \cap allowed
        set(row) == [f \in DOMAIN row |-> IF f \in fields THEN updates[f] ELSE row[f]]
        setSale(row) == [f \in DOMAIN row |->
                           IF f \in fields \cap {"unit_price_ht", "vat_rate"}
                           THEN updates[f] ELSE row[f]]
        after == [d EXCEPT !.products = {IF r.sku = sku THEN set(r) ELSE r : r \in @},
                           !.sales = {IF r.sku = sku THEN setSale(r) ELSE r : r \in @}]
    IN  IF ~d.tables \/ fault = "execute"
        THEN except_sqlite3_Error(rollback(d, d), "sqlite3.OperationalError", "sqlite")
        ELSE IF \A r \in after.products : ProductChecks(r)
             THEN Return(after, None)
             ELSE except_sqlite3_Error(rollback(d, after), "sqlite3.IntegrityError", "sqlite")

\* UPDATE products SET ... WHERE sku = ?; conn.commit(): the number of rows
\* the statement changed is not looked at
update_product_body(d, sku, updates, fault) ==
    LET fields == DOMAIN updates \cap allowed
        set(row) == [f \in DOMAIN row |-> IF f \in fields THEN updates[f] ELSE row[f]]
        after == [d EXCEPT !.products = {IF r.sku = sku THEN set(r) ELSE r : r \in @}]
    IN  IF ~d.tables \/ fault = "execute"
        THEN except_sqlite3_Error(rollback(d, d), "sqlite3.OperationalError", "sqlite")
        ELSE IF \A r \in after.products : ProductChecks(r)
             THEN Return(after, None)
             ELSE except_sqlite3_Error(rollback(d, after), "sqlite3.IntegrityError", "sqlite")

\* update_product with the faults of the store: without an allowed field it
\* returns before it opens a connection
store_update_product(d, sku, updates, fault) ==
    IF DOMAIN updates \cap allowed = {} THEN Return(d, None)
    ELSE connect(d, fault # "open", update_product_body(d, sku, updates, fault))

repo_update_product(d, sku, updates) ==
    store_update_product(d, sku, updates, "none")

delete_product_body(d, sku, fault) ==
    IF ~d.tables \/ fault = "execute"
    THEN except_sqlite3_Error(rollback(d, d), "sqlite3.OperationalError", "sqlite")
    ELSE LET rows == {r \in d.products : r.sku = sku}
             after == [d EXCEPT !.products = @ \ rows]
         IN  IF ~ForeignKey(after.products, after.sales)
             THEN except_sqlite3_Error(rollback(d, after), "sqlite3.IntegrityError", "ventes")
             \* raised inside the try, caught by none of its except clauses:
             \* neither commit nor rollback is called
             ELSE IF rows = {} THEN [Raise(after, "DatabaseError", "introuvable") EXCEPT !.txn = TRUE]
             ELSE Return(after, None)

\* delete_product with the faults of the store
store_delete_product(d, sku, fault) ==
    connect(d, fault # "open", delete_product_body(d, sku, fault))

repo_delete_product(d, sku) ==
    store_delete_product(d, sku, "none")

sell_product_body(d, sale, fault) ==
    LET row == [id |-> d.saleSeq + 1, product_id |-> sale.product_id, sku |-> sale.sku,
                quantity |-> sale.quantity, unit_price_ht |-> sale.unit_price_ht,
                vat_rate |-> sale.vat_rate, total_ht |-> sale.total_ht,
                total_vat |-> sale.total_vat, total_ttc |-> sale.total_ttc,
                sold_at |-> sale.sold_at]
        afterInsert == [d EXCEPT !.sales = @ \cup {row}, !.saleSeq = @ + 1]
        afterUpdate == [afterInsert EXCEPT !.products =
                          {IF r.sku = sale.sku
                           THEN [r EXCEPT !.quantity = @ - sale.quantity] ELSE r : r \in @}]
    IN  IF ~d.tables \/ fault = "insert"
        THEN except_sqlite3_Error(rollback(d, d), "sqlite3.OperationalError", "sqlite")
        ELSE IF ~(SaleChecks(row) /\ ForeignKey(afterInsert.products, afterInsert.sales))
        THEN except_sqlite3_Error(rollback(d, d), "sqlite3.IntegrityError", "sqlite")
        ELSE IF fault = "update"
        THEN except_sqlite3_Error(rollback(d, afterInsert), "sqlite3.OperationalError", "sqlite")
        ELSE IF ~(\A r \in afterUpdate.products : ProductChecks(r))
        THEN except_sqlite3_Error(rollback(d, afterInsert), "sqlite3.IntegrityError", "sqlite")
        ELSE IF fault = "commit"
        THEN except_sqlite3_Error(rollback(d, afterUpdate), "sqlite3.OperationalError", "sqlite")
        ELSE Return(afterUpdate, None)

repo_sell_product(d, sale, fault) ==
    connect(d, fault # "open", sell_product_body(d, sale, fault))

\* no except clause of its own: the driver's exception reaches connect
get_dashboard_stats_body(d, fault) ==
    IF ~d.tables \/ fault = "execute" THEN Raise(d, "sqlite3.OperationalError", "sqlite")
    ELSE Return(d, Some([nb_ventes  |-> Cardinality(d.sales),
                         qty_totale |-> SumOver(d.sales, "quantity"),
                         ca_ht      |-> Round2(SumOver(d.sales, "total_ht"), 1),
                         tva_totale |-> Round2(SumOver(d.sales, "total_vat"), 1),
                         ca_ttc     |-> Round2(SumOver(d.sales, "total_ttc"), 1)]))

\* get_dashboard_stats with the faults of the store
store_get_dashboard_stats(d, fault) ==
    connect(d, fault # "open", get_dashboard_stats_body(d, fault))

repo_get_dashboard_stats(d) ==
    store_get_dashboard_stats(d, "none")

(***************************************************************************)
(* utils.py : load_initial_json                                            *)
(* A file is [exists, json, products, vat_rate_default]: json is           *)
(* "malformed", "nonobject" or "object"; products is the list under the    *)
(* key "products" (<<>> when the key is missing or the list empty); an     *)
(* entry is [sku, name, category, unit_price_ht, quantity, vat_rate] with  *)
(* an Optional vat_rate; an entry that is not a JSON object is [scalar].   *)
(***************************************************************************)
validate_vat_rate(rate) ==
    ~(rate < 0 \/ rate > 1000)

validate_unit_price_ht(price) ==
    ~(price < 0)

validate_quantity(qty, allow_zero) ==
    IF allow_zero THEN ~(qty < 0) ELSE ~(qty <= 0)

RECURSIVE normalize(_, _, _, _, _)
\* the loop of load_initial_json over the entries, from entry i on
normalize(entries, i, seen, vat_default, normalized) ==
    IF i > Len(entries) THEN [err |-> "none", val |-> normalized]
    ELSE LET p == entries[i]
             vat_rate == IF p.vat_rate = None THEN vat_default ELSE p.vat_rate[1]
         IN  IF "scalar" \in DOMAIN p THEN [err |-> "DataImportError", val |-> <<>>]
             ELSE IF p.sku = "" THEN [err |-> "ValidationError", val |-> <<>>]
             ELSE IF p.sku \in seen THEN [err |-> "DataImportError", val |-> <<>>]
             ELSE IF p.name = "" \/ p.category = "" THEN [err |-> "ValidationError", val |-> <<>>]
             ELSE IF ~validate_unit_price_ht(p.unit_price_ht) THEN [err |-> "ValidationError", val |-> <<>>]
             ELSE IF ~validate_quantity(p.quantity, TRUE) THEN [err |-> "ValidationError", val |-> <<>>]
             ELSE IF ~validate_vat_rate(vat_rate) THEN [err |-> "ValidationError", val |-> <<>>]
             ELSE normalize(entries, i + 1, seen \cup {p.sku}, vat_default,
                            Append(normalized,
                                   [sku |-> p.sku, name |-> p.name, category |-> p.category,
                                    unit_price_ht |-> p.unit_price_ht, quantity |-> p.quantity,
                                    vat_rate |-> vat_rate]))

load_initial_json(file) ==
    LET vat_default == IF file.vat_rate_default = None THEN 200 ELSE file.vat_rate_default[1]
    IN  IF ~file.exists THEN [err |-> "ValidationError", val |-> <<>>]
        ELSE IF file.json = "malformed" THEN [err |-> "DataImportError", val |-> <<>>]
        ELSE IF file.json # "object" THEN [err |-> "DataImportError", val |-> <<>>]
        ELSE IF file.products = <<>> THEN [err |-> "DataImportError", val |-> <<>>]
        ELSE IF ~validate_vat_rate(vat_default) THEN [err |-> "ValidationError", val |-> <<>>]
        ELSE normalize(file.products, 1, {}, vat_default, <<>>)

(***************************************************************************)
(* services.py : InventoryManager                                          *)
(***************************************************************************)
\* the names services.py imports from .exceptions
services_exceptions == {"ValidationError"}

RECURSIVE insert_allOrNothing(_, _, _, _)
\* the insertion loop inside one transaction for the whole batch: a failing
\* insert undoes the inserts made before it
insert_allOrNothing(d, products, i, now) ==
    IF i > Len(products) THEN Return(d, Some([count |-> i - 1]))
    ELSE LET p == products[i]
             prod == [sku |-> p.sku, name |-> p.name, category |-> p.category,
                      unit_price_ht |-> p.unit_price_ht, quantity |-> p.quantity,
                      vat_rate |-> p.vat_rate, id |-> None, created_at |-> Some(now)]
             r == repo_insert_product(d, prod, now)
             rest == insert_allOrNothing(r.db, products, i + 1, now)
         IN  IF r.err # "none" THEN r
             ELSE IF rest.err # "none" THEN Raise(d, rest.err, rest.msg)
             ELSE rest

RECURSIVE insert_all(_, _, _, _)
\* the insertion loop of initialize_from_json, from product i on
insert_all(d, products, i, now) ==
    IF i > Len(products) THEN Return(d, Some([count |-> i - 1]))
    ELSE LET p == products[i]
             prod == [sku |-> p.sku, name |-> p.name, category |-> p.category,
                      unit_price_ht |-> p.unit_price_ht, quantity |-> p.quantity,
                      vat_rate |-> p.vat_rate, id |-> None, created_at |-> Some(now)]
             r == repo_insert_product(d, prod, now)
         IN  IF r.err # "none" THEN r
             ELSE insert_all(r.db, products, i + 1, now)

\* the schema reset or created before the file is loaded
initialize_schema_first(d, file, reset, now) ==
    LET payload == load_initial_json(file)
        schema == IF reset THEN repo_reset_and_create_schema(d)
                  ELSE repo_create_schema_if_needed(d)
    IN  IF payload.err # "none" THEN Raise(schema.db, payload.err, "import")
        ELSE insert_all(schema.db, payload.val, 1, now)

svc_initialize_from_json(d, file, reset, now) ==
    LET payload == load_initial_json(file)
        schema == IF reset THEN repo_reset_and_create_schema(d)
                  ELSE repo_create_schema_if_needed(d)
    IN  IF payload.err # "none" THEN Raise(d, payload.err, "import")
        ELSE insert_all(schema.db, payload.val, 1, now)

svc_list_inventory(d) ==
    repo_list_products(repo_create_schema_if_needed(d).db)

\* the existence test of add_product dropped
sku_takenNever(existing) ==
    FALSE

\* existing = self.repo.get_product_by_sku(sku); if existing:
sku_taken(existing) ==
    existing.val # None

svc_add_product(d, sku, name, category, unit_price_ht, quantity, vat_rate, now) ==
    LET existing == repo_get_product_by_sku(d, sku)
        vat == IF vat_rate # None THEN vat_rate[1] ELSE default_vat_rate
        product == [sku |-> sku, name |-> name, category |-> category,
                    unit_price_ht |-> 10 * Round2(unit_price_ht, 10), vat_rate |-> vat,
                    quantity |-> quantity, id |-> None, created_at |-> Some(now)]
        r == repo_insert_product(d, product, now)
    IN  IF unit_price_ht < 0 THEN Raise(d, "ValidationError", "prix")
        ELSE IF quantity < 0 THEN Raise(d, "ValidationError", "quantite")
        ELSE IF vat_rate # None /\ (vat_rate[1] < 0 \/ vat_rate[1] > 1000)
        THEN Raise(d, "ValidationError", "tva")
        ELSE IF existing.err # "none" THEN existing
        ELSE IF sku_taken(existing) THEN Raise(d, "ValidationError", "existe deja")
        ELSE IF r.err # "none" THEN r
        ELSE Return(r.db, Some(product))

svc_update_product(d, sku, updates) ==
    LET product == repo_get_product_by_sku(d, sku)
        has(k) == k \in DOMAIN updates
        rounded == [k \in DOMAIN updates |->
                      IF k = "unit_price_ht" THEN 10 * Round2(updates[k], 10) ELSE updates[k]]
        r == repo_update_product(d, sku, rounded)
    IN  IF product.err # "none" THEN product
        ELSE IF product.val = None THEN Raise(d, "ValidationError", "pas trouve")
        ELSE IF has("unit_price_ht") /\ updates["unit_price_ht"] < 0
        THEN Raise(d, "ValidationError", "prix")
        ELSE IF has("quantity") /\ updates["quantity"] < 0
        THEN Raise(d, "ValidationError", "quantite")
        ELSE IF has("vat_rate") /\ (updates["vat_rate"] < 0 \/ updates["vat_rate"] > 1000)
        THEN Raise(d, "ValidationError", "tva")
        ELSE IF r.err # "none" THEN r
        ELSE repo_get_product_by_sku(r.db, sku)

svc_delete_product(d, sku) ==
    LET product == repo_get_product_by_sku(d, sku)
        r == repo_delete_product(d, sku)
    IN  IF product.err # "none" THEN product
        ELSE IF product.val = None THEN Raise(d, "ValidationError", "pas trouve")
        ELSE IF r.err = "none" THEN Return(r.db, None)
        \* except DatabaseError as e: the name is looked up when an exception arrives
        ELSE IF "DatabaseError" \notin services_exceptions THEN Raise(r.db, "NameError", "DatabaseError")
        ELSE IF r.err # "DatabaseError" THEN r
        ELSE IF r.msg = "ventes" THEN Raise(r.db, "ValidationError", "produit a des ventes")
        ELSE r

\* the stock test of sell_product dropped
stock_insufficientNever(product, quantity) ==
    FALSE

\* the stock test of sell_product off by one: selling the whole stock is refused
stock_insufficientOffByOne(product, quantity) ==
    product.quantity <= quantity

\* if product.quantity < quantity
stock_insufficient(product, quantity) ==
    product.quantity < quantity

\* f"stock pas assez. il reste: {product.quantity}"
stock_message(product) ==
    "stock pas assez. il reste: " \o ToString(product.quantity)

\* sell_product up to the call of the repository: the Sale it builds
svc_sell_prepare(d, sku, quantity, now) ==
    LET product == repo_get_product_by_sku(d, sku)
        p == product.val[1]
        t == calc_totals(p.unit_price_ht, quantity, p.vat_rate)
    IN  IF quantity <= 0 THEN Raise(d, "ValidationError", "quantite")
        ELSE IF product.err # "none" THEN product
        ELSE IF product.val = None THEN Raise(d, "ValidationError", "pas trouve")
        ELSE IF stock_insufficient(p, quantity) THEN Raise(d, "ValidationError", stock_message(p))
        ELSE Return(d, Some([product_id |-> p.id[1], sku |-> sku, quantity |-> quantity,
                             unit_price_ht |-> p.unit_price_ht, vat_rate |-> p.vat_rate,
                             total_ht |-> t.total_ht, total_vat |-> t.total_vat,
                             total_ttc |-> t.total_ttc, sold_at |-> now]))

svc_sell_product(d, sku, quantity, fault, now) ==
    LET s == svc_sell_prepare(d, sku, quantity, now)
        sale == s.val[1]
        r == repo_sell_product(d, sale, fault)
    IN  IF s.err # "none" THEN s
        ELSE IF r.err # "none" THEN r
        ELSE Return(r.db, Some([total_ht |-> sale.total_ht, total_vat |-> sale.total_vat,
                                total_ttc |-> sale.total_ttc]))

svc_get_dashboard(d) ==
    repo_get_dashboard_stats(d)

(***************************************************************************)
(* cli.py : the menu loop                                                  *)
(***************************************************************************)
\* exceptions.py: InventoryError and its subclasses
InventoryErrors ==
    {"InventoryError", "ValidationError", "NotFoundError", "StockError",
     "DataImportError", "DatabaseError"}

\* what main() does when the action of a menu choice ends with exception err
\* ("none": it returned): "menu" when the loop shows the menu again, otherwise
\* the exit status it returns
main(err) ==
    IF err = "none" THEN "menu"
    ELSE IF err \in {"ValidationError", "DataImportError"} THEN "menu"
    ELSE IF err = "DatabaseError" THEN "menu"
    ELSE IF err \in InventoryErrors THEN "menu"
    ELSE IF err = "KeyboardInterrupt" THEN "exit 130"
    ELSE "exit 1"

(***************************************************************************)
(* Inputs the operations are called with                                   *)
(***************************************************************************)
Catalog(entries) ==
    [exists |-> TRUE, json |-> "object", products |-> entries, vat_rate_default |-> None]

EntryP001 ==
    [sku |-> "P001", name |-> "Widget", category |-> "Tools",
     unit_price_ht |-> 1230, quantity |-> MaxQty, vat_rate |-> None]

EntryP002 ==
    [sku |-> "P002", name |-> "Gadget", category |-> "Tools",
     unit_price_ht |-> 2494, quantity |-> 1, vat_rate |-> Some(55)]

\* the JSON files given to initialize_from_json: three valid catalogs (one of
\* them not in the order of its SKUs), a batch with a duplicate SKU, and a path
\* that is not a file
Files ==
    { Catalog(<<EntryP001, EntryP002>>),
      Catalog(<<EntryP002, EntryP001>>),
      Catalog(<<EntryP002>>),
      Catalog(<<EntryP001, EntryP001>>),
      [exists |-> FALSE, json |-> "object", products |-> <<>>, vat_rate_default |-> None] }

\* files load_initial_json rejects: a path that is not a file, text that is
\* not JSON, a root that is not an object, no (or an empty) list of products,
\* an entry that is not an object, a repeated SKU, a negative price, a tax
\* rate above 1, an empty name and a default tax rate above 1
RejectedFiles ==
    { [exists |-> FALSE, json |-> "object", products |-> <<>>, vat_rate_default |-> None],
      [exists |-> TRUE, json |-> "malformed", products |-> <<>>, vat_rate_default |-> None],
      [exists |-> TRUE, json |-> "nonobject", products |-> <<>>, vat_rate_default |-> None],
      Catalog(<<>>),
      Catalog(<<EntryP002, [scalar |-> TRUE]>>),
      Catalog(<<EntryP001, EntryP001>>),
      Catalog(<<EntryP002, [EntryP001 EXCEPT !.unit_price_ht = -10]>>),
      Catalog(<<[EntryP001 EXCEPT !.vat_rate = Some(1500)]>>),
      Catalog(<<[EntryP001 EXCEPT !.name = ""]>>),
      [Catalog(<<EntryP001>>) EXCEPT !.vat_rate_default = Some(1500)] }

AddPrices == {-10, 1234}

AddQuantities == {-1, MaxQty}

AddVatRates == {None, Some(1500)}

Updates ==
    { [name |-> "Renamed", category |-> "Garden", unit_price_ht |-> 2494, vat_rate |-> 55],
      [unit_price_ht |-> -10], [quantity |-> MaxQty], [quantity |-> -1],
      [vat_rate |-> 1500], [created_at |-> "t0"] }

SellQuantities == 0..(MaxQty + 1)

\* a Product that was not read from the store
NewProduct(sku, name, unit_price_ht, quantity, vat_rate) ==
    [sku |-> sku, name |-> name, category |-> "Tools", unit_price_ht |-> unit_price_ht,
     quantity |-> quantity, vat_rate |-> vat_rate, id |-> None, created_at |-> None]

\* the products the repository's insert_product is given: two that satisfy
\* the constraints of the table and one with a negative price
StoreProducts ==
    { NewProduct("P001", "Widget", 1230, MaxQty, default_vat_rate),
      NewProduct("P002", "Gadget", 2490, 1, 55),
      NewProduct("P002", "Gadget", -10, 1, 55) }

\* the keyword arguments the repository's update_product is given
StoreUpdates ==
    { [quantity |-> 1], [quantity |-> -1], [created_at |-> "t0"] }

(***************************************************************************)
(* The state machine.  db is the database file; last is the last call of   *)
(* the engine with its arguments and outcome; pending[c] is the Sale a     *)
(* client has built and not yet handed to the repository (SpecConc);       *)
(* conns counts the connections to the file that are open and tells        *)
(* whether one of them has a transaction pending.                          *)
(***************************************************************************)
\* the arguments of a call without arguments
NoArgs ==
    [self |-> TRUE]

Call(op, args, r) ==
    [op |-> op, args |-> args, err |-> r.err, msg |-> r.msg, val |-> r.val, cause |-> r.cause]

\* the counters of the model stay within its bounds
Within(d) ==
    d.prodSeq <= MaxId /\ d.saleSeq <= MaxSales

\* the client whose calls `last` records
Observed == 1

\* the connections after a call with result r
Held(cs, r) ==
    [open |-> cs.open + r.open, txn |-> cs.txn \/ r.txn]

\* client c has called an operation, with result r
Step(c, op, args, r) ==
    /\ Within(r.db)
    /\ db' = r.db
    /\ last' = IF c = Observed THEN Call(op, args, r) ELSE last
    /\ conns' = Held(conns, r)
    /\ UNCHANGED pending

\* a storage fault strikes inside SQLiteRepository.sell_product, when it is called
FaultsAt(prepared) ==
    IF prepared.err = "none" THEN Faults ELSE {"none"}

Init ==
    /\ db = EmptyDb
    /\ last = [op |-> "start", args |-> NoArgs, err |-> "none", msg |-> "", val |-> None,
               cause |-> "none"]
    /\ pending = [c \in Clients |-> None]
    /\ conns = [open |-> 0, txn |-> FALSE]

\* initialize_from_json called with one of the files
initialize_from(c, files) ==
    \E file \in files, reset \in BOOLEAN, now \in Timestamps :
        Step(c, "initialize_from_json", [file |-> file, reset |-> reset, now |-> now],
             svc_initialize_from_json(db, file, reset, now))

initialize_from_json(c) ==
    initialize_from(c, Files)

list_inventory(c) ==
    Step(c, "list_inventory", NoArgs, svc_list_inventory(db))

add_product(c) ==
    \E sku \in EditedSkus, unit_price_ht \in AddPrices, quantity \in AddQuantities,
       vat_rate \in AddVatRates, now \in Timestamps :
        Step(c, "add_product",
             [sku |-> sku, name |-> "Widget", category |-> "Tools",
              unit_price_ht |-> unit_price_ht, quantity |-> quantity,
              vat_rate |-> vat_rate, now |-> now],
             svc_add_product(db, sku, "Widget", "Tools", unit_price_ht, quantity, vat_rate, now))

update_product(c) ==
    \E sku \in EditedSkus, updates \in Updates :
        Step(c, "update_product", [sku |-> sku, updates |-> updates],
             svc_update_product(db, sku, updates))

delete_product(c) ==
    \E sku \in SKUS :
        Step(c, "delete_product", [sku |-> sku], svc_delete_product(db, sku))

sell_product(c) ==
    \E sku \in SKUS, quantity \in SellQuantities, now \in Timestamps :
      \E fault \in FaultsAt(svc_sell_prepare(db, sku, quantity, now)) :
        Step(c, "sell_product", [sku |-> sku, quantity |-> quantity, fault |-> fault, now |-> now],
             svc_sell_product(db, sku, quantity, fault, now))

get_dashboard(c) ==
    Step(c, "get_dashboard", NoArgs, svc_get_dashboard(db))

Next ==
    \/ initialize_from_json(Observed)
    \/ list_inventory(Observed)
    \/ add_product(Observed)
    \/ update_product(Observed)
    \/ delete_product(Observed)
    \/ sell_product(Observed)
    \/ get_dashboard(Observed)

Spec == Init /\ [][Next]_vars

(***************************************************************************)
(* Two clients on the same database file.  InventoryManager.sell_product   *)
(* reads the product in one connection and records the sale in another:    *)
(* between the two store calls the other client's sales, imports, adds and *)
(* deletes can run.                                                        *)
(***************************************************************************)
sell_begin(c) ==
    \E sku \in SKUS, quantity \in SellQuantities, now \in Timestamps :
        LET r == svc_sell_prepare(db, sku, quantity, now)
        IN  /\ pending[c] = None
            /\ r.err = "none"
            /\ pending' = [pending EXCEPT ![c] = r.val]
            /\ conns' = Held(conns, r)
            /\ UNCHANGED <<db, last>>

sell_commit(c) ==
    \E fault \in Faults :
        LET r == repo_sell_product(db, pending[c][1], fault)
        IN  /\ pending[c] # None
            /\ Within(r.db)
            /\ db' = r.db
            /\ pending' = [pending EXCEPT ![c] = None]
            /\ last' = Call("sell_commit", NoArgs, r)
            /\ conns' = Held(conns, r)

NextConc ==
    \/ \E c \in Clients \ {Observed} : initialize_from_json(c)
    \/ \E c \in Clients \ {Observed} : add_product(c)
    \/ \E c \in Clients \ {Observed} : delete_product(c)
    \/ \E c \in Clients : sell_begin(c)
    \/ \E c \in Clients : sell_commit(c)

SpecConc == Init /\ [][NextConc]_vars

(***************************************************************************)
(* The import given every kind of file, on stores that sales and other     *)
(* imports have filled.                                                    *)
(***************************************************************************)
NextImport ==
    \/ initialize_from(Observed, Files \cup RejectedFiles)
    \/ list_inventory(Observed)
    \/ sell_product(Observed)

SpecImport == Init /\ [][NextImport]_vars

(***************************************************************************)
(* The repository called directly (app.repo.X(...), as the tests do), with *)
(* a storage fault at any of the points of StoreFaults and Faults.         *)
(***************************************************************************)
direct_reset_and_create_schema(c) ==
    \E fault \in StoreFaults :
        Step(c, "repo.reset_and_create_schema", [fault |-> fault],
             store_reset_and_create_schema(db, fault))

direct_create_schema_if_needed(c) ==
    \E fault \in StoreFaults :
        Step(c, "repo.create_schema_if_needed", [fault |-> fault],
             store_create_schema_if_needed(db, fault))

direct_insert_product(c) ==
    \E p \in StoreProducts, now \in Timestamps, fault \in StoreFaults :
        Step(c, "repo.insert_product", [p |-> p, now |-> now, fault |-> fault],
             store_insert_product(db, p, now, fault))

direct_list_products(c) ==
    \E fault \in StoreFaults :
        Step(c, "repo.list_products", [fault |-> fault], store_list_products(db, fault))

direct_get_product_by_sku(c) ==
    \E sku \in EditedSkus, fault \in StoreFaults :
        Step(c, "repo.get_product_by_sku", [sku |-> sku, fault |-> fault],
             store_get_product_by_sku(db, sku, fault))

direct_update_product(c) ==
    \E sku \in EditedSkus, updates \in StoreUpdates, fault \in StoreFaults :
        Step(c, "repo.update_product", [sku |-> sku, updates |-> updates, fault |-> fault],
             store_update_product(db, sku, updates, fault))

direct_delete_product(c) ==
    \E sku \in SKUS, fault \in StoreFaults :
        Step(c, "repo.delete_product", [sku |-> sku, fault |-> fault],
             store_delete_product(db, sku, fault))

\* sell_product given a Sale of a product of the store
direct_sell_product(c) ==
    \E sku \in SKUS, quantity \in 1..MaxQty, now \in Timestamps :
        LET prepared == svc_sell_prepare(db, sku, quantity, now)
        IN  /\ prepared.err = "none"
            /\ \E fault \in Faults \cup {"open"} :
                  Step(c, "repo.sell_product", [sale |-> prepared.val[1], fault |-> fault],
                       repo_sell_product(db, prepared.val[1], fault))

direct_get_dashboard_stats(c) ==
    \E fault \in StoreFaults :
        Step(c, "repo.get_dashboard_stats", [fault |-> fault],
             store_get_dashboard_stats(db, fault))

NextStore ==
    \/ direct_reset_and_create_schema(Observed)
    \/ direct_create_schema_if_needed(Observed)
    \/ direct_insert_product(Observed)
    \/ direct_list_products(Observed)
    \/ direct_get_product_by_sku(Observed)
    \/ direct_update_product(Observed)
    \/ direct_delete_product(Observed)
    \/ direct_sell_product(Observed)
    \/ direct_get_dashboard_stats(Observed)
    \/ list_inventory(Observed)

SpecStore == Init /\ [][NextStore]_vars

(***************************************************************************)
(* Properties                                                              *)
(***************************************************************************)
\* the row of table products with this SKU
ProductOf(d, sku) ==
    CHOOSE p \in d.products : p.sku = sku

HasProduct(d, sku) ==
    \E p \in d.products : p.sku = sku

\* n is an integer nearest to num/den
Nearest(num, den, n) ==
    /\ 2 * (n * den - num) <= den
    /\ 2 * (num - n * den) <= den

\* the step is a call op of the engine by the observed client
Called(op) ==
    last'.op = op

C2_SellExact ==
    [][ \A sku \in SKUS, q \in SellQuantities :
          ( /\ Called("sell_product")
            /\ last'.args.sku = sku /\ last'.args.quantity = q
            /\ last'.args.fault = "none"
            /\ HasProduct(db, sku) /\ 0 < q /\ q <= ProductOf(db, sku).quantity )
          => LET p == ProductOf(db, sku)
                 new == db'.sales \ db.sales
             IN  /\ last'.err = "none"
                 /\ db'.products = (db.products \ {p}) \cup {[p EXCEPT !.quantity = p.quantity - q]}
                 /\ db.sales \subseteq db'.sales
                 /\ Cardinality(new) = 1
                 /\ \A s \in new :
                      /\ s.sku = sku /\ s.product_id = p.id /\ s.quantity = q
                      /\ s.unit_price_ht = p.unit_price_ht /\ s.vat_rate = p.vat_rate
                      /\ Nearest(p.unit_price_ht * q, 10, s.total_ht)
                      /\ Nearest(s.total_ht * p.vat_rate, 1000, s.total_vat)
                      /\ s.total_ttc = s.total_ht + s.total_vat
                      /\ last'.val = Some([total_ht |-> s.total_ht, total_vat |-> s.total_vat,
                                           total_ttc |-> s.total_ttc]) ]_vars

C2_Witness ==
    /\ last.op = "sell_product" /\ last.err = "none"
    /\ HasProduct(db, last.args.sku)
    /\ ProductOf(db, last.args.sku).quantity = 0
    /\ last.args.quantity = MaxQty

\* C3: a sale of more than the stock of an existing product is refused by the
\* engine (ValidationError, no totals returned) and leaves the products and the
\* sales ledger as they were.
C3_OversellRefused ==
    [][ \A sku \in SKUS, q \in SellQuantities :
          ( /\ Called("sell_product")
            /\ last'.args.sku = sku /\ last'.args.quantity = q
            /\ HasProduct(db, sku) /\ q > ProductOf(db, sku).quantity )
          => /\ last'.err = "ValidationError"
             /\ last'.val = None
             /\ db' = db ]_vars

C3_Witness ==
    /\ last.op = "sell_product" /\ last.err = "ValidationError"
    /\ HasProduct(db, last.args.sku)
    /\ last.msg = stock_message(ProductOf(db, last.args.sku))
    /\ db.sales # {}

\* C4: the recording of a sale is atomic: a storage fault at the INSERT, at the
\* UPDATE or at the commit leaves the sales and the products as they were; without
\* fault the sale row and the decrement are both there; in every case the stock
\* taken from each product equals the quantity of the sale rows added for it.
C4_SaleAtomic ==
    [][ Called("sell_product")
        => LET new == db'.sales \ db.sales
           IN  /\ last'.args.fault # "none"
                    => /\ last'.err = "DatabaseError"
                       /\ db'.sales = db.sales /\ db'.products = db.products
               /\ (last'.args.fault = "none" /\ last'.err = "none")
                    => new # {} /\ db'.products # db.products
               /\ db.sales \subseteq db'.sales
               /\ \A p \in db.products :
                    \E p2 \in db'.products :
                       /\ p2.id = p.id
                       /\ p.quantity - p2.quantity =
                            SumOver({s \in new : s.sku = p.sku}, "quantity") ]_vars

C4_Witness ==
    /\ last.op = "sell_product" /\ last.args.fault = "update" /\ last.err = "DatabaseError"
    /\ db.sales # {}

\* the sale rows that reference the product with this SKU
SalesOf(d, sku) ==
    {s \in d.sales : \E p \in d.products : p.sku = sku /\ s.product_id = p.id}

\* the SKUs list_inventory returns
ListedSkus(d) ==
    LET listing == svc_list_inventory(d).val
    IN  {listing[i].sku : i \in 1..Len(listing)}

\* C5: delete_product of a product without sales succeeds, and the product is
\* then returned neither by the listing nor by the lookup; delete_product of a
\* product with at least one sale fails, the product stays listed with the same
\* fields and the ledger keeps all its rows.
C5_DeleteRestricted ==
    [][ \A sku \in SKUS :
          ( /\ Called("delete_product") /\ last'.args.sku = sku
            /\ HasProduct(db, sku) )
          => /\ SalesOf(db, sku) = {}
                  => /\ last'.err = "none"
                     /\ sku \notin ListedSkus(db')
                     /\ repo_get_product_by_sku(db', sku).val = None
                     /\ db'.products = db.products \ {ProductOf(db, sku)}
                     /\ db'.sales = db.sales
             /\ SalesOf(db, sku) # {}
                  => /\ last'.err # "none"
                     /\ sku \in ListedSkus(db')
                     /\ db'.products = db.products
                     /\ db'.sales = db.sales ]_vars

C5_Witness ==
    /\ last.op = "delete_product" /\ last.err # "none"
    /\ SalesOf(db, last.args.sku) # {}

\* C6 as claimed: across every operation a recorded sale row is never removed
\* and never modified.
C6_LedgerAppendOnly ==
    [][ db.sales \subseteq db'.sales ]_vars

\* the step is an initialize_from_json(reset = true) whose file passes the import stage
ResetImport ==
    /\ Called("initialize_from_json")
    /\ last'.args.reset
    /\ load_initial_json(last'.args.file).err = "none"

\* C6 (amended): list, add, update, delete, sell, dashboard and initialize
\* without reset never remove or modify a recorded sale row; an initialize
\* with reset whose file passes the import stage empties the ledger.
C6_LedgerAppendOnlyExceptReset ==
    [][ /\ ~ResetImport => db.sales \subseteq db'.sales
        /\ ResetImport => db'.sales = {} ]_vars

C6_Witness ==
    /\ last.op = "initialize_from_json" /\ ~last.args.reset
    /\ load_initial_json(last.args.file).err = "none"
    /\ db.sales # {}

\* C7: get_dashboard returns the number of sale rows, the sum of their
\* quantities and the sums of their total_ht, total_vat and total_ttc, and
\* changes nothing.
C7_DashboardSums ==
    [][ Called("get_dashboard")
        => /\ last'.err = "none"
           /\ last'.val = Some([nb_ventes  |-> Cardinality(db.sales),
                                qty_totale |-> SumOver(db.sales, "quantity"),
                                ca_ht      |-> SumOver(db.sales, "total_ht"),
                                tva_totale |-> SumOver(db.sales, "total_vat"),
                                ca_ttc     |-> SumOver(db.sales, "total_ttc")])
           /\ db' = db ]_vars

\* C8: whenever the ledger holds no sale, get_dashboard succeeds and returns
\* count 0, quantity 0 and totals 0.
C8_EmptyLedgerZeros ==
    (last.op = "get_dashboard" /\ db.sales = {})
    => /\ last.err = "none"
       /\ last.val = Some([nb_ventes |-> 0, qty_totale |-> 0, ca_ht |-> 0,
                           tva_totale |-> 0, ca_ttc |-> 0])

\* C9: add_product with a SKU already in the store fails with ValidationError,
\* whatever the other arguments, and changes nothing.
C9_DuplicateSkuRejected ==
    [][ ( /\ Called("add_product")
          /\ HasProduct(db, last'.args.sku) )
        => /\ last'.err = "ValidationError"
           /\ db' = db ]_vars

C9_Witness ==
    /\ last.op = "add_product" /\ last.err = "ValidationError" /\ last.msg = "existe deja"
    /\ HasProduct(db, last.args.sku)

\* C10: no two stored products have the same SKU.
C10_SkuUnique ==
    \A p1 \in db.products : \A p2 \in db.products : p1.sku = p2.sku => p1 = p2

\* an import without reset was stopped by the store at a SKU already present
C10_Witness ==
    /\ last.op = "initialize_from_json" /\ ~last.args.reset
    /\ last.err = "DatabaseError" /\ last.msg = "constraint"

\* the updates pass the three range tests of InventoryManager.update_product
UpdatesInRange(u) ==
    /\ "unit_price_ht" \in DOMAIN u => u["unit_price_ht"] >= 0
    /\ "quantity" \in DOMAIN u => u["quantity"] >= 0
    /\ "vat_rate" \in DOMAIN u => (u["vat_rate"] >= 0 /\ u["vat_rate"] <= 1000)

\* C11: update_product of an existing product with values in range succeeds;
\* a successful update sets each supplied field among name, category, price
\* (rounded to 2 decimals), tax rate and quantity to the supplied value and
\* leaves the SKU, the id, the creation timestamp, every field not supplied,
\* every other product and the sales ledger as they were; it returns the product
\* as stored afterwards; a refused update changes nothing.
C11_UpdateExact ==
    [][ \A sku \in SKUS :
          ( /\ Called("update_product") /\ last'.args.sku = sku
            /\ HasProduct(db, sku) )
          => LET p == ProductOf(db, sku)
                 u == last'.args.updates
                 supplied == DOMAIN u \cap {"name", "category", "unit_price_ht", "vat_rate", "quantity"}
             IN  /\ UpdatesInRange(u) <=> last'.err = "none"
                 /\ last'.err # "none" => db' = db
                 /\ last'.err = "none"
                      => /\ HasProduct(db', sku)
                         /\ LET p2 == ProductOf(db', sku)
                            IN  /\ db'.products = (db.products \ {p}) \cup {p2}
                                /\ \A f \in DOMAIN p :
                                     IF f \notin supplied THEN p2[f] = p[f]
                                     ELSE IF f = "unit_price_ht"
                                     THEN /\ p2[f] % 10 = 0
                                          /\ Nearest(u[f], 10, p2[f] \div 10)
                                     ELSE p2[f] = u[f]
                                /\ last'.val = Some(RowToProduct(p2))
                         /\ db'.sales = db.sales ]_vars

\* a price with three decimals was supplied for a product that has a sale, next
\* to another product
C11_Witness ==
    /\ last.op = "update_product" /\ last.err = "none"
    /\ "unit_price_ht" \in DOMAIN last.args.updates
    /\ HasProduct(db, last.args.sku)
    /\ ProductOf(db, last.args.sku).unit_price_ht = 2490
    /\ SalesOf(db, last.args.sku) # {}
    /\ Cardinality(db.products) = 2

\* C12: update_product, delete_product and sell_product with a SKU that is not
\* in the store, and sell_product with a quantity <= 0, fail with
\* ValidationError and leave the products and the sales as they were.
C12_UnknownSkuIsValidation ==
    [][ \A sku \in SKUS :
          ( \/ Called("update_product") /\ last'.args.sku = sku /\ ~HasProduct(db, sku)
            \/ Called("delete_product") /\ last'.args.sku = sku /\ ~HasProduct(db, sku)
            \/ /\ Called("sell_product") /\ last'.args.sku = sku
               /\ (~HasProduct(db, sku) \/ last'.args.quantity <= 0) )
          => /\ last'.err = "ValidationError"
             /\ db'.products = db.products
             /\ db'.sales = db.sales ]_vars

\* C13: delete_product of a product that has at least one sale raises
\* ValidationError with the message that the product has sales.
C13_DeleteConflictIsValidation ==
    [][ \A sku \in SKUS :
          ( /\ Called("delete_product") /\ last'.args.sku = sku
            /\ HasProduct(db, sku) /\ SalesOf(db, sku) # {} )
          => /\ last'.err = "ValidationError"
             /\ last'.msg = "produit a des ventes" ]_vars

\* C14: a sale of more than the stock of an existing product fails with
\* StockError, the error kind of insufficient stock, and the message reports
\* the quantity that remains.
C14_OversellIsStockError ==
    [][ \A sku \in SKUS :
          ( /\ Called("sell_product") /\ last'.args.sku = sku
            /\ HasProduct(db, sku)
            /\ last'.args.quantity > ProductOf(db, sku).quantity )
          => /\ last'.err = "StockError"
             /\ last'.msg = stock_message(ProductOf(db, sku)) ]_vars

\* an entry of an import file passes the checks of the import stage
ValidEntry(e) ==
    /\ e.sku # "" /\ e.name # "" /\ e.category # ""
    /\ e.unit_price_ht >= 0 /\ e.quantity >= 0
    /\ e.vat_rate # None => (e.vat_rate[1] >= 0 /\ e.vat_rate[1] <= 1000)

\* a readable JSON object with a non-empty list of valid entries of distinct SKUs
ValidPayload(file) ==
    /\ file.exists /\ file.json = "object" /\ file.products # <<>>
    /\ file.vat_rate_default # None
         => (file.vat_rate_default[1] >= 0 /\ file.vat_rate_default[1] <= 1000)
    /\ \A i \in 1..Len(file.products) : ValidEntry(file.products[i])
    /\ \A i, j \in 1..Len(file.products) :
         file.products[i].sku = file.products[j].sku => i = j

\* the tax rate an entry of the file gets
EntryVat(file, e) ==
    IF e.vat_rate # None THEN e.vat_rate[1]
    ELSE IF file.vat_rate_default # None THEN file.vat_rate_default[1]
    ELSE 200

\* C15: initialize_from_json with reset on a valid payload of n records returns
\* n; afterwards the store holds exactly n products, one per record with the
\* record's SKU, name, category, price, quantity and tax rate, and
\* list_inventory returns these n products in ascending order of SKU.
C15_ImportExact ==
    [][ ( /\ Called("initialize_from_json")
          /\ last'.args.reset
          /\ ValidPayload(last'.args.file) )
        => LET file == last'.args.file
               n == Len(file.products)
               listed == svc_list_inventory(db')
           IN  /\ last'.err = "none"
               /\ last'.val = Some([count |-> n])
               /\ Cardinality(db'.products) = n
               /\ \A i \in 1..n :
                    \E p \in db'.products :
                       /\ p.sku = file.products[i].sku
                       /\ p.name = file.products[i].name
                       /\ p.category = file.products[i].category
                       /\ p.unit_price_ht = file.products[i].unit_price_ht
                       /\ p.quantity = file.products[i].quantity
                       /\ p.vat_rate = EntryVat(file, file.products[i])
               /\ listed.err = "none"
               /\ Len(listed.val) = n
               /\ \A i \in 1..n : \E p \in db'.products : listed.val[i] = RowToProduct(p)
               /\ \A i, j \in 1..n :
                    i < j => SkuRank(listed.val[i].sku) < SkuRank(listed.val[j].sku) ]_vars

\* a catalog that lists P002 before P001 has been imported with reset
C15_Witness ==
    /\ last.op = "initialize_from_json" /\ last.args.reset /\ last.err = "none"
    /\ last.val = Some([count |-> 2])
    /\ \E p \in db.products : p.sku = "P002" /\ p.id = 1
    /\ \E p \in db.products : p.sku = "P001" /\ p.id = 2
    /\ db.sales = {}

\* C16: add_product with a fresh SKU, a price >= 0, a quantity >= 0 and a tax
\* rate in [0,1] or omitted is followed by a lookup of the SKU that returns a
\* product whose price is the supplied price rounded to 2 decimals, whose
\* quantity is the supplied quantity and whose tax rate is the supplied rate
\* or, when omitted, the configured default rate.
C16_AddThenLookup ==
    [][ ( /\ Called("add_product")
          /\ ~HasProduct(db, last'.args.sku)
          /\ last'.args.unit_price_ht >= 0
          /\ last'.args.quantity >= 0
          /\ last'.args.vat_rate # None
               => (last'.args.vat_rate[1] >= 0 /\ last'.args.vat_rate[1] <= 1000) )
        => LET a == last'.args
               found == repo_get_product_by_sku(db', a.sku)
           IN  /\ found.err = "none"
               /\ found.val # None
               /\ found.val[1].unit_price_ht % 10 = 0
               /\ Nearest(a.unit_price_ht, 10, found.val[1].unit_price_ht \div 10)
               /\ found.val[1].quantity = a.quantity
               /\ found.val[1].vat_rate =
                    IF a.vat_rate # None THEN a.vat_rate[1] ELSE default_vat_rate ]_vars

\* the engine operations the menu choices 1 to 7 call
MenuActions ==
    {"initialize_from_json", "list_inventory", "add_product", "update_product",
     "delete_product", "sell_product", "get_dashboard"}

\* C17: when the action of a menu choice fails on a domain condition (invalid
\* input, unknown SKU, insufficient stock, deletion of a product that has
\* sales, import error, store error) the loop shows the menu again: the session
\* does not end.  Every failure of an engine call in this model is one of
\* these conditions.
C17_MenuLoopSurvives ==
    [][ (last'.op \in MenuActions /\ last'.err # "none")
        => main(last'.err) = "menu" ]_vars

\* C18: update_product leaves every sale row as it was, and with it the totals
\* get_dashboard reports; a sale made afterwards carries the price and the tax
\* rate the product has at that moment, the sale rows recorded before keep
\* theirs.
C18_SalesKeepCapturedValues ==
    [][ /\ Called("update_product")
           => /\ db'.sales = db.sales
              /\ svc_get_dashboard(db').err = svc_get_dashboard(db).err
              /\ svc_get_dashboard(db').val = svc_get_dashboard(db).val
        /\ (Called("sell_product") /\ last'.err = "none")
           => /\ db.sales \subseteq db'.sales
              /\ \A s \in db'.sales \ db.sales :
                   LET p == ProductOf(db, s.sku)
                   IN  /\ s.unit_price_ht = p.unit_price_ht
                       /\ s.vat_rate = p.vat_rate
                       /\ Nearest(p.unit_price_ht * s.quantity, 10, s.total_ht)
                       /\ Nearest(s.total_ht * p.vat_rate, 1000, s.total_vat) ]_vars

\* a product was sold, then its price and tax rate were changed, then it was
\* sold again: the ledger holds both prices
C18_Witness ==
    /\ last.op = "sell_product" /\ last.err = "none"
    /\ \E s1, s2 \in db.sales :
         /\ s1.sku = s2.sku /\ s1.id < s2.id
         /\ s1.unit_price_ht # s2.unit_price_ht
         /\ s1.vat_rate # s2.vat_rate
         /\ s2.unit_price_ht = ProductOf(db, s2.sku).unit_price_ht

\* C19: every sale row has quantity > 0, total_ht >= 0, total_vat >= 0,
\* total_ttc >= 0 and, in cents, total_ttc = total_ht + total_vat; every result
\* of get_dashboard satisfies ca_ttc = ca_ht + tva_totale.
C19_SaleRowsConsistent ==
    /\ \A s \in db.sales :
         /\ s.quantity > 0
         /\ s.total_ht >= 0 /\ s.total_vat >= 0 /\ s.total_ttc >= 0
         /\ s.total_ttc = s.total_ht + s.total_vat
    /\ LET stats == svc_get_dashboard(db)
       IN  stats.err = "none"
           => stats.val[1].ca_ttc = stats.val[1].ca_ht + stats.val[1].tva_totale

\* the ledger holds two sales, one of them with a tax amount that was rounded
C19_Witness ==
    /\ Cardinality(db.sales) = 2
    /\ \E s \in db.sales : s.total_vat > 0 /\ s.total_vat * 1000 # s.total_ht * s.vat_rate
    /\ last.op = "get_dashboard" /\ last.err = "none"

\* C20: every sale row's product_id is the id of a product in the store, and
\* the sale's SKU is that product's SKU.
C20_SalesReferToProducts ==
    \A s \in db.sales :
       \E p \in db.products : p.id = s.product_id /\ p.sku = s.sku

\* a delete was refused for a product with a sale, after another product was
\* deleted and the sold product was updated
C20_Witness ==
    /\ last.op = "delete_product" /\ last.err # "none"
    /\ SalesOf(db, last.args.sku) # {}
    /\ Cardinality(db.products) = 1
    /\ db.prodSeq = 2

\* the arguments of an add_product or update_product call hold a negative
\* price, a negative quantity or a tax rate outside [0, 1]
InvalidFields(op, args) ==
    IF op = "add_product"
    THEN \/ args.unit_price_ht < 0
         \/ args.quantity < 0
         \/ args.vat_rate # None /\ ~validate_vat_rate(args.vat_rate[1])
    ELSE \/ "unit_price_ht" \in DOMAIN args.updates /\ args.updates["unit_price_ht"] < 0
         \/ "quantity" \in DOMAIN args.updates /\ args.updates["quantity"] < 0
         \/ "vat_rate" \in DOMAIN args.updates /\ ~validate_vat_rate(args.updates["vat_rate"])

\* C21: after every step every product has unit price >= 0 and a tax rate in
\* [0, 1]; add_product and update_product called with a negative price, a
\* negative quantity or a tax rate outside [0, 1] fail with ValidationError and
\* leave the store as it was.
C21_InvalidFieldsAreValidation ==
    [][ /\ \A p \in db'.products :
             p.unit_price_ht >= 0 /\ p.vat_rate >= 0 /\ p.vat_rate <= 1000
        /\ \A op \in {"add_product", "update_product"} :
             Called(op) /\ InvalidFields(op, last'.args)
             => last'.err = "ValidationError" /\ db' = db ]_vars

\* the positions of the batch whose SKU is already in store d
TakenAt(d, batch) ==
    {i \in 1..Len(batch) : HasProduct(d, batch[i].sku)}

\* row is the product row inserted for the normalized import entry e
RowOfEntry(row, e) ==
    /\ row.sku = e.sku /\ row.name = e.name /\ row.category = e.category
    /\ row.unit_price_ht = e.unit_price_ht /\ row.quantity = e.quantity
    /\ row.vat_rate = e.vat_rate

\* C22: when initialize_from_json with reset=False is given a valid batch whose
\* record k is the first with a SKU already in the store, the call raises an
\* error and returns no count, and afterwards the store holds the products it
\* had before plus exactly records 1..k-1 of the batch; the sales are as before.
C22_ImportKeepsInsertsBeforeFailure ==
    [][ LET payload == load_initial_json(last'.args.file)
            batch == payload.val
            taken == TakenAt(db, batch)
            k == CHOOSE i \in taken : \A j \in taken : i <= j
            added == db'.products \ db.products
        IN  ( /\ Called("initialize_from_json") /\ ~last'.args.reset
              /\ payload.err = "none" /\ taken # {} )
            => /\ last'.err = "DatabaseError" /\ last'.val = None
               /\ db.products \subseteq db'.products
               /\ Cardinality(added) = k - 1
               /\ \A i \in 1..(k - 1) : \E row \in added : RowOfEntry(row, batch[i])
               /\ \A i \in k..Len(batch) : \A row \in added : row.sku # batch[i].sku
               /\ db'.sales = db.sales ]_vars

\* an import without reset of the batch P002, P001 was stopped by the SKU of
\* its second record: the store holds the product of its first record (P002,
\* inserted after P001) next to P001 and the sale recorded before
C22_Witness ==
    /\ last.op = "initialize_from_json" /\ ~last.args.reset
    /\ last.args.file = Catalog(<<EntryP002, EntryP001>>)
    /\ last.err = "DatabaseError" /\ last.msg = "constraint"
    /\ HasProduct(db, "P001") /\ HasProduct(db, "P002")
    /\ ProductOf(db, "P001").id < ProductOf(db, "P002").id
    /\ SalesOf(db, "P001") # {}

\* the exceptions of the import stage (load_initial_json)
ImportStageErrors == {"ValidationError", "DataImportError"}

\* C23: when load_initial_json rejects the file, initialize_from_json raises
\* the import stage's exception, returns no count and leaves the database as it
\* was (products, sales, tables), with reset=True as with reset=False.
C23_RejectedImportTouchesNothing ==
    [][ ( /\ Called("initialize_from_json")
          /\ load_initial_json(last'.args.file).err # "none" )
        => /\ last'.err = load_initial_json(last'.args.file).err
           /\ last'.err \in ImportStageErrors
           /\ last'.val = None
           /\ db' = db ]_vars

\* an import with reset=True of a file whose second entry has a negative price
\* was refused on a store that holds two products and a sale
C23_Witness ==
    /\ last.op = "initialize_from_json" /\ last.args.reset
    /\ last.args.file \in RejectedFiles
    /\ Len(last.args.file.products) = 2
    /\ "scalar" \notin DOMAIN last.args.file.products[2]
    /\ last.args.file.products[2].unit_price_ht < 0
    /\ last.err = "ValidationError"
    /\ Cardinality(db.products) = 2 /\ db.sales # {}

\* the step is a call of the repository's update_product that names an allowed
\* column and meets no storage fault
UpdateReachesStore ==
    /\ Called("repo.update_product")
    /\ last'.args.fault = "none"
    /\ DOMAIN last'.args.updates \cap allowed # {}
    /\ db.tables

\* C24: the repository's update_product called with a SKU that is not in the
\* store fails with a not-found error.
C24_StoreUpdateOfAbsentSkuFails ==
    [][ UpdateReachesStore /\ ~HasProduct(db, last'.args.sku)
        => \/ last'.err = "NotFoundError"
           \/ last'.err = "DatabaseError" /\ last'.msg = "introuvable" ]_vars

\* the step leaves every row and both AUTOINCREMENT counters as they were
RowsUnchanged ==
    /\ db'.products = db.products /\ db'.sales = db.sales
    /\ db'.prodSeq = db.prodSeq /\ db'.saleSeq = db.saleSeq

\* C25: create_schema_if_needed, in any state and with or without a storage
\* fault, leaves all products and sales unchanged; without a fault it succeeds,
\* the tables exist afterwards and a second call changes nothing at all;
\* list_inventory, which calls it, leaves all products and sales unchanged too.
C25_CreateSchemaKeepsRows ==
    [][ /\ Called("repo.create_schema_if_needed")
           => /\ RowsUnchanged
              /\ last'.args.fault = "none"
                 => /\ last'.err = "none" /\ db'.tables
                    /\ store_create_schema_if_needed(db', "none").err = "none"
                    /\ store_create_schema_if_needed(db', "none").db = db'
        /\ Called("list_inventory")
           => RowsUnchanged /\ last'.err = "none" /\ db'.tables ]_vars

\* create_schema_if_needed has returned on a store that holds two products
\* and a sale
C25_Witness ==
    /\ last.op = "repo.create_schema_if_needed" /\ last.err = "none"
    /\ Cardinality(db.products) = 2 /\ db.sales # {}

\* C26: after every operation of the repository (normal return, storage fault
\* inside the operation, domain error raised inside it, failure to open) no
\* connection is open and no transaction is pending.
C26_ConnectionsReleased ==
    conns.open = 0 /\ ~conns.txn

\* delete_product of a SKU that is not in the table has raised its own
\* DatabaseError from inside the with-body, after the DELETE and without commit
\* or rollback, on a store that holds a product and a sale
C26_Witness ==
    /\ last.op = "repo.delete_product" /\ last.args.fault = "none"
    /\ last.err = "DatabaseError" /\ last.msg = "introuvable"
    /\ db.products # {} /\ db.sales # {}
    /\ conns.open = 0

\* the operations of the repository
StoreOps ==
    {"repo.reset_and_create_schema", "repo.create_schema_if_needed",
     "repo.insert_product", "repo.list_products", "repo.get_product_by_sku",
     "repo.update_product", "repo.delete_product", "repo.sell_product",
     "repo.get_dashboard_stats"}

\* the step is a call of the repository that opens a connection (update_product
\* without an allowed column returns before it does)
OpensConnection ==
    /\ last'.op \in StoreOps
    /\ last'.op = "repo.update_product" => DOMAIN last'.args.updates \cap allowed # {}

\* C27: a repository operation struck by a storage fault (at the opening of
\* the connection or in a statement) raises DatabaseError whose cause is the
\* driver's exception, and no exception of the driver ever leaves a repository
\* or engine operation.
C27_StorageFaultsAreDatabaseErrors ==
    [][ /\ OpensConnection /\ last'.args.fault # "none"
           => /\ last'.err = "DatabaseError"
              /\ last'.cause \in sqlite3_Error
        /\ last'.err \notin sqlite3_Error ]_vars

\* get_dashboard_stats, which has no except clause of its own, was struck by a
\* storage fault in its SELECT on a store that holds a sale
C27_Witness ==
    /\ last.op = "repo.get_dashboard_stats" /\ last.args.fault = "execute"
    /\ last.err = "DatabaseError" /\ last.cause = "sqlite3.OperationalError"
    /\ db.sales # {}

\* the step is the repository call of client c's sell_product
Commits(c) ==
    pending[c] # None /\ pending'[c] = None

\* C28: when a client's sell_product reaches the repository after other sales
\* of the same product were committed since it read the stock, no stock becomes
\* negative, the stock taken from the product equals the quantity of the sale
\* rows the step adds, and a sale that asks for more than is left is refused
\* with DatabaseError and leaves neither a sale row nor a decrement.
C28_InterleavedSalesKeepStock ==
    [][ \A c \in Clients :
          Commits(c)
          => LET sale == pending[c][1]
                 new == db'.sales \ db.sales
             IN  \A p \in db.products :
                   (p.id = sale.product_id /\ p.sku = sale.sku)
                   => /\ \A p2 \in db'.products : p2.quantity >= 0
                      /\ db.sales \subseteq db'.sales
                      /\ \E p2 \in db'.products :
                            /\ p2.id = p.id
                            /\ p.quantity - p2.quantity = SumOver(new, "quantity")
                      /\ p.quantity < sale.quantity
                         => /\ last'.err = "DatabaseError"
                            /\ last'.cause \in sqlite3_Error
                            /\ db' = db
                      /\ last'.err = "none"
                         => new # {} /\ \A s \in new : s.quantity = sale.quantity ]_vars

\* the repository has refused, on the CHECK of the stock, the sale of a client
\* that had read the stock before another sale of the only product ever
\* inserted was committed
C28_Witness ==
    /\ last.op = "sell_commit" /\ last.err = "DatabaseError"
    /\ last.cause = "sqlite3.IntegrityError"
    /\ db.prodSeq = 1
    /\ \E p \in db.products : p.quantity < MaxQty /\ SalesOf(db, p.sku) # {}
    /\ \A c \in Clients : pending[c] = None

====
